---- MODULE Spec2Model ----
(***************************************************************************)
(* A model of peekingduck's KalmanFilter (jdev1/jde_files/utils/           *)
(* kalman_filter.py): the constant-velocity filter that tracks bounding    *)
(* boxes (x, y, a, h) with an 8-dimensional state.                         *)
(*                                                                         *)
(* Arithmetic.  numpy computes in floating point; the model computes the   *)
(* same expressions exactly, over the rationals.  TLC's integers are 32    *)
(* bits wide and the filter's constants (1e-5 squared next to 200 squared) *)
(* do not fit a 32-bit fraction, so a natural number is a sequence of      *)
(* base-10000 limbs, least significant first, and a number is a reduced    *)
(* fraction <<sign, numerator, denominator>>.  Rounding is not modelled.   *)
(***************************************************************************)
EXTENDS Integers, Sequences, FiniteSets

(***************************************************************************)
(* Natural numbers of any size: <<>> is 0, no leading (last) zero limb.    *)
(***************************************************************************)
Base == 10000

NatOf(n) ==
  IF n = 0 THEN <<>>
  ELSE IF n < Base THEN <<n>>
  ELSE IF n < Base * Base THEN <<n % Base, n \div Base>>
  ELSE <<n % Base, (n \div Base) % Base, n \div (Base * Base)>>

Limb(a, i) == IF i <= Len(a) THEN a[i] ELSE 0

RECURSIVE Trim(_)
Trim(a) ==
  IF Len(a) = 0 THEN a
  ELSE IF a[Len(a)] # 0 THEN a
  ELSE Trim(SubSeq(a, 1, Len(a) - 1))

RECURSIVE AddC(_, _, _, _)
AddC(a, b, i, c) ==
  IF i > Len(a) /\ i > Len(b)
  THEN IF c = 0 THEN <<>> ELSE <<c>>
  ELSE LET s == Limb(a, i) + Limb(b, i) + c
       IN  <<s % Base>> \o AddC(a, b, i + 1, s \div Base)

NAdd(a, b) ==
  IF Len(a) = 0 THEN b ELSE IF Len(b) = 0 THEN a ELSE AddC(a, b, 1, 0)

RECURSIVE SubC(_, _, _, _)
SubC(a, b, i, c) ==
  IF i > Len(a) THEN <<>>
  ELSE LET s == a[i] - Limb(b, i) - c
       IN  IF s < 0 THEN <<s + Base>> \o SubC(a, b, i + 1, 1)
                    ELSE <<s>> \o SubC(a, b, i + 1, 0)

\* a - b for a >= b
NSub(a, b) == IF Len(b) = 0 THEN a ELSE Trim(SubC(a, b, 1, 0))

RECURSIVE CmpFrom(_, _, _)
CmpFrom(a, b, i) ==
  IF i = 0 THEN 0
  ELSE IF a[i] < b[i] THEN -1
  ELSE IF a[i] > b[i] THEN 1
  ELSE CmpFrom(a, b, i - 1)

\* -1, 0, 1 as a < b, a = b, a > b
NCmp(a, b) ==
  IF Len(a) < Len(b) THEN -1
  ELSE IF Len(a) > Len(b) THEN 1
  ELSE CmpFrom(a, b, Len(a))

RECURSIVE ColSum(_, _, _, _, _)
ColSum(a, b, k, i, hi) ==
  IF i > hi THEN 0 ELSE a[i] * b[k + 1 - i] + ColSum(a, b, k, i + 1, hi)

RECURSIVE MulC(_, _, _, _)
MulC(a, b, k, c) ==
  IF k > Len(a) + Len(b) THEN <<>>
  ELSE LET lo == IF k + 1 - Len(b) > 1 THEN k + 1 - Len(b) ELSE 1
           hi == IF k < Len(a) THEN k ELSE Len(a)
           s  == ColSum(a, b, k, lo, hi) + c
       IN  <<s % Base>> \o MulC(a, b, k + 1, s \div Base)

NMul(a, b) ==
  IF Len(a) = 0 \/ Len(b) = 0 THEN <<>>
  ELSE IF a = <<1>> THEN b
  ELSE IF b = <<1>> THEN a
  ELSE Trim(MulC(a, b, 1, 0))

\* the largest q in lo..hi with b * q <= r, given b * lo <= r
RECURSIVE QSearch(_, _, _, _)
QSearch(r, b, lo, hi) ==
  IF lo >= hi THEN lo
  ELSE LET mid == (lo + hi + 1) \div 2
       IN  IF NCmp(NMul(b, <<mid>>), r) <= 0
           THEN QSearch(r, b, mid, hi)
           ELSE QSearch(r, b, lo, mid - 1)

\* r \div b for 0 <= r < b * Base: a single limb
QDigit(r, b) ==
  IF NCmp(r, b) < 0 THEN 0
  ELSE LET tb == b[Len(b)]
           rt == IF Len(r) = Len(b) THEN r[Len(r)]
                 ELSE r[Len(r)] * Base + r[Len(r) - 1]
           up == rt \div tb
       IN  QSearch(r, b, rt \div (tb + 1),
                   IF up > Base - 1 THEN Base - 1 ELSE up)

\* long division, most significant limb first: <<quotient, remainder>>.
\* DivStep brings limb i down, DivDigit finds the quotient's limb qd of the
\* running remainder r1, DivPut subtracts b * qd and goes on.
RECURSIVE DivStep(_, _, _, _, _)
RECURSIVE DivDigit(_, _, _, _, _)
RECURSIVE DivPut(_, _, _, _, _, _)
DivPut(a, b, i, r1, q, qd) ==
  DivStep(a, b, i - 1,
          IF qd = 0 THEN r1 ELSE NSub(r1, NMul(b, <<qd>>)),
          <<qd>> \o q)

DivDigit(a, b, i, r1, q) == DivPut(a, b, i, r1, q, QDigit(r1, b))

DivStep(a, b, i, rem, q) ==
  IF i = 0 THEN <<Trim(q), rem>>
  ELSE DivDigit(a, b, i, Trim(<<a[i]>> \o rem), q)

NDivMod(a, b) ==
  IF NCmp(a, b) < 0 THEN <<<<>>, a>> ELSE DivStep(a, b, Len(a), <<>>, <<>>)

RECURSIVE GcdInt(_, _)
GcdInt(m, n) == IF n = 0 THEN m ELSE GcdInt(n, m % n)

IntOf(a) == Limb(a, 1) + Base * Limb(a, 2)

RECURSIVE NGcd(_, _)
NGcd(a, b) ==
  IF Len(b) = 0 THEN a
  ELSE IF Len(a) <= 2 /\ Len(b) <= 2 THEN NatOf(GcdInt(IntOf(a), IntOf(b)))
  ELSE NGcd(b, NDivMod(a, b)[2])

(***************************************************************************)
(* Numbers: <<s, n, d>> is s * n / d with s in {-1, 0, 1}, n and d         *)
(* naturals with no common factor, d positive.                             *)
(***************************************************************************)
Zero == <<0, <<>>, <<1>>>>

One == <<1, <<1>>, <<1>>>>

\* s * n / d with the common factor g of n and d taken out
ReduceBy(s, n, d, g) ==
  IF g = <<1>> THEN <<s, n, d>>
  ELSE <<s, NDivMod(n, g)[1], NDivMod(d, g)[1]>>

Reduce(s, n, d) ==
  IF Len(n) = 0 \/ s = 0 THEN Zero
  ELSE IF d = <<1>> \/ n = <<1>> THEN <<s, n, d>>
  ELSE ReduceBy(s, n, d, NGcd(n, d))

\* the fraction p / q of two TLC integers, q > 0
Frac(p, q) ==
  IF p < 0 THEN Reduce(-1, NatOf(-p), NatOf(q)) ELSE Reduce(1, NatOf(p), NatOf(q))

Num(p) == Frac(p, 1)

RNeg(x) == <<-x[1], x[2], x[3]>>

RMul(x, y) ==
  IF x[1] = 0 \/ y[1] = 0 THEN Zero
  ELSE IF x = One THEN y
  ELSE IF y = One THEN x
  ELSE Reduce(x[1] * y[1], NMul(x[2], y[2]), NMul(x[3], y[3]))

\* s * a / d + t * b / d for signs s, t in {-1, 1}
AddOver(s, a, t, b, d) ==
  Reduce(IF s = t \/ NCmp(a, b) >= 0 THEN s ELSE t,
         IF s = t THEN NAdd(a, b)
         ELSE IF NCmp(a, b) >= 0 THEN NSub(a, b) ELSE NSub(b, a),
         d)

RAdd(x, y) ==
  IF x[1] = 0 THEN y
  ELSE IF y[1] = 0 THEN x
  ELSE IF x[3] = y[3] THEN AddOver(x[1], x[2], y[1], y[2], x[3])
  ELSE AddOver(x[1], NMul(x[2], y[3]), y[1], NMul(y[2], x[3]),
               NMul(x[3], y[3]))

RSub(x, y) == RAdd(x, RNeg(y))

\* x / y for y # 0
RDiv(x, y) == RMul(x, <<y[1], y[3], y[2]>>)

RSquare(x) == RMul(x, x)

Sign(x) == x[1]

\* x < y, x <= y
RLess(x, y) == Sign(RSub(x, y)) < 0

RLeq(x, y) == Sign(RSub(x, y)) <= 0


RECURSIVE SumTo(_, _)
SumTo(v, n) == IF n = 0 THEN Zero ELSE RAdd(SumTo(v, n - 1), v[n])

\* np.sum of a vector
Sum(v) == SumTo(v, Len(v))

(***************************************************************************)
(* numpy arrays: a vector is a sequence of numbers, a matrix a sequence of *)
(* rows.  Python's index i is the model's index i + 1.  Array(f) is the    *)
(* function f as a sequence: it makes TLC build the array once, when it is *)
(* made, instead of at every use of one of its entries.                    *)
(***************************************************************************)
Array(f) == f \o <<>>

Rows(m) == Len(m)

Cols(m) == IF Len(m) = 0 THEN 0 ELSE Len(m[1])

\* np.eye(n, m)
eye(n, m) ==
  Array([i \in 1..n |-> Array([j \in 1..m |-> IF i = j THEN One ELSE Zero])])

\* np.zeros_like(v)
zeros_like(v) == Array([i \in 1..Len(v) |-> Zero])

\* np.r_[u, v]
Concat(u, v) == u \o v

\* np.square(v), elementwise
square(v) == Array([i \in 1..Len(v) |-> RSquare(v[i])])

\* np.diag(v)
diag(v) ==
  Array([i \in 1..Len(v) |->
           Array([j \in 1..Len(v) |-> IF i = j THEN v[i] ELSE Zero])])

\* m.T
Transpose(m) ==
  Array([j \in 1..Cols(m) |-> Array([i \in 1..Rows(m) |-> m[i][j]])])

\* the inner product of two vectors of the same length
Inner(u, v) == Sum(Array([k \in 1..Len(u) |-> RMul(u[k], v[k])]))

\* np.dot(a, b) of two matrices
Dot(a, b) ==
  LET bt == Transpose(b)
  IN  Array([i \in 1..Rows(a) |->
               Array([j \in 1..Cols(b) |-> Inner(a[i], bt[j])])])

\* np.dot(m, v) of a matrix and a vector
DotMV(m, v) == Array([i \in 1..Rows(m) |-> Inner(m[i], v)])

\* np.dot(v, m) of a vector and a matrix
DotVM(v, m) ==
  LET mt == Transpose(m)
  IN  Array([j \in 1..Cols(m) |-> Inner(v, mt[j])])

\* np.linalg.multi_dot((a, b, c)): the product, whichever order it picks
multi_dot(a, b, c) == Dot(Dot(a, b), c)

VecAdd(u, v) == Array([i \in 1..Len(u) |-> RAdd(u[i], v[i])])

VecSub(u, v) == Array([i \in 1..Len(u) |-> RSub(u[i], v[i])])

MatAdd(a, b) == Array([i \in 1..Rows(a) |-> VecAdd(a[i], b[i])])

MatSub(a, b) == Array([i \in 1..Rows(a) |-> VecSub(a[i], b[i])])

(***************************************************************************)
(* Cholesky factorization.  The factor c of a (a = c c^T, c lower          *)
(* triangular) has the entries coef[i][j] * sqrt(rad[j]): column j of the  *)
(* factor is a rational multiple of the square root of the j-th pivot      *)
(* rad[j] = a[j][j] - sum_{k<j} c[j][k]^2, and coef[j][j] = 1.  LAPACK's   *)
(* potrf reads the lower triangle of a only and fails at the first pivot   *)
(* that is not positive.                                                   *)
(***************************************************************************)
\* CholCols factors columns j, j + 1, ...; CholCol is column j, given its
\* pivot.  c[j][k]^2 = coef[j][k]^2 * rad[k], and c[i][k] * c[j][k] =
\* coef[i][k] * coef[j][k] * rad[k].
RECURSIVE CholCols(_, _, _, _)
RECURSIVE CholCol(_, _, _, _, _)
CholCol(a, j, coef, rad, pivot) ==
  IF Sign(pivot) <= 0
  THEN [ok |-> FALSE, coef |-> coef, rad |-> rad]
  ELSE CholCols(a, j + 1,
                Array([i \in 1..Rows(a) |->
                   Array([k \in 1..Rows(a) |->
                      IF k = j /\ i > j
                      THEN RDiv(RSub(a[i][j],
                                     Sum(Array([l \in 1..(j - 1) |->
                                       RMul(RMul(coef[i][l], coef[j][l]), rad[l])]))),
                                pivot)
                      ELSE coef[i][k]])]),
                Array([k \in 1..Rows(a) |-> IF k = j THEN pivot ELSE rad[k]]))

CholCols(a, j, coef, rad) ==
  IF j > Rows(a) THEN [ok |-> TRUE, coef |-> coef, rad |-> rad]
  ELSE CholCol(a, j, coef, rad,
               RSub(a[j][j],
                    Sum(Array([k \in 1..(j - 1) |->
                                 RMul(RSquare(coef[j][k]), rad[k])]))))

\* scipy.linalg.cho_factor(a, lower=True); ok = FALSE is LinAlgError
cho_factor(a) == CholCols(a, 1, eye(Rows(a), Rows(a)), zeros_like(a))

\* np.linalg.cholesky(a); ok = FALSE is LinAlgError
cholesky(a) == CholCols(a, 1, eye(Rows(a), Rows(a)), zeros_like(a))

\* forward substitution c y = b for one right-hand side b: y[i] is
\* ycoef[i] * sqrt(rad[i]), as c[i][j] * y[j] = coef[i][j] * ycoef[j] * rad[j]
RECURSIVE ForwardTo(_, _, _)
ForwardTo(ch, b, i) ==
  IF i = 0 THEN <<>>
  ELSE LET y == ForwardTo(ch, b, i - 1)
       IN  Append(y,
                  RDiv(RSub(b[i],
                            Sum(Array([j \in 1..(i - 1) |->
                               RMul(RMul(ch.coef[i][j], y[j]), ch.rad[j])]))),
                       ch.rad[i]))

\* backward substitution c^T x = y: x is rational, as row i of c^T is a
\* multiple of sqrt(rad[i]) and so is y[i]
RECURSIVE BackwardFrom(_, _, _)
BackwardFrom(ch, y, i) ==
  IF i > Len(y) THEN zeros_like(y)
  ELSE LET x == BackwardFrom(ch, y, i + 1)
       IN  [x EXCEPT ![i] =
              RSub(y[i], Sum(Array([j \in 1..Len(y) |->
                               IF j > i THEN RMul(ch.coef[j][i], x[j]) ELSE Zero])))]

\* scipy.linalg.cho_solve((c, lower), b): the solution x of a x = b, column
\* by column of b
cho_solve(ch, b) ==
  LET bt == Transpose(b)
  IN  Transpose(Array([n \in 1..Cols(b) |->
                         BackwardFrom(ch, ForwardTo(ch, bt[n], Rows(b)), 1)]))

\* scipy.linalg.solve_triangular(c, b, lower=True): the solution y of
\* c y = b, column by column of b; entry [i][n] is coef * sqrt(rad)
solve_triangular(ch, b) ==
  LET bt == Transpose(b)
  IN  Transpose(Array([n \in 1..Cols(b) |->
        LET y == ForwardTo(ch, bt[n], Rows(b))
        IN  Array([i \in 1..Rows(b) |-> [coef |-> y[i], rad |-> ch.rad[i]]])]))

\* the product of two multiples of the same square root
SurdMul(u, v) == RMul(RMul(u.coef, v.coef), u.rad)

(***************************************************************************)
(* class KalmanFilter                                                      *)
(***************************************************************************)
ndim == 4

delta_time_step == One

\* KalmanFilter.__init__: the filter object
NewKalmanFilter ==
  [_motion_mat |->
     Array([i \in 1..(2 * ndim) |-> Array([j \in 1..(2 * ndim) |->
        IF i = j THEN One
        ELSE IF i <= ndim /\ j = ndim + i THEN delta_time_step
        ELSE Zero])]),
   _update_mat |-> eye(ndim, 2 * ndim),
   _std_weight_position |-> Frac(1, 20),
   _std_weight_velocity |-> Frac(1, 160)]

\* a variant of initiate with the aspect ratio's deviation project uses
InitiateAspectTenth(self, measurement) ==
  [status |-> "ok",
   mean |-> Concat(measurement, zeros_like(measurement)),
   covariance |->
     diag(square(
       <<RMul(RMul(Num(2), self._std_weight_position), measurement[4]),
         RMul(RMul(Num(2), self._std_weight_position), measurement[4]),
         Frac(1, 10),
         RMul(RMul(Num(2), self._std_weight_position), measurement[4]),
         RMul(RMul(Num(10), self._std_weight_velocity), measurement[4]),
         RMul(RMul(Num(10), self._std_weight_velocity), measurement[4]),
         Frac(1, 100000),
         RMul(RMul(Num(10), self._std_weight_velocity), measurement[4])>>))]

\* KalmanFilter.initiate: the (mean, covariance) of a new track.  Every
\* operation's result carries status "ok" when the call returns, and the name
\* of the exception when it raises.
initiate(self, measurement) ==
  [status |-> "ok",
   mean |-> Concat(measurement, zeros_like(measurement)),
   covariance |->
     diag(square(
       <<RMul(RMul(Num(2), self._std_weight_position), measurement[4]),
         RMul(RMul(Num(2), self._std_weight_position), measurement[4]),
         Frac(1, 100),
         RMul(RMul(Num(2), self._std_weight_position), measurement[4]),
         RMul(RMul(Num(10), self._std_weight_velocity), measurement[4]),
         RMul(RMul(Num(10), self._std_weight_velocity), measurement[4]),
         Frac(1, 100000),
         RMul(RMul(Num(10), self._std_weight_velocity), measurement[4])>>))]

\* a variant of predict that multiplies the mean by the motion matrix
\* itself, not by its transpose
PredictUntransposed(self, mean, covariance) ==
  [status |-> "ok",
   mean |-> DotVM(mean, self._motion_mat),
   covariance |->
     MatAdd(multi_dot(self._motion_mat, covariance,
                     Transpose(self._motion_mat)),
            diag(square(Concat(
              <<RMul(self._std_weight_position, mean[4]),
                RMul(self._std_weight_position, mean[4]),
                Frac(1, 100),
                RMul(self._std_weight_position, mean[4])>>,
              <<RMul(self._std_weight_velocity, mean[4]),
                RMul(self._std_weight_velocity, mean[4]),
                Frac(1, 100000),
                RMul(self._std_weight_velocity, mean[4])>>))))]

\* KalmanFilter.predict
predict(self, mean, covariance) ==
  [status |-> "ok",
   mean |-> DotVM(mean, Transpose(self._motion_mat)),
   covariance |->
     MatAdd(multi_dot(self._motion_mat, covariance,
                     Transpose(self._motion_mat)),
            diag(square(Concat(
              <<RMul(self._std_weight_position, mean[4]),
                RMul(self._std_weight_position, mean[4]),
                Frac(1, 100),
                RMul(self._std_weight_position, mean[4])>>,
              <<RMul(self._std_weight_velocity, mean[4]),
                RMul(self._std_weight_velocity, mean[4]),
                Frac(1, 100000),
                RMul(self._std_weight_velocity, mean[4])>>))))]

\* KalmanFilter.project
project(self, mean, covariance) ==
  [status |-> "ok",
   mean |-> DotMV(self._update_mat, mean),
   covariance |->
     MatAdd(multi_dot(self._update_mat, covariance,
                     Transpose(self._update_mat)),
            diag(square(
              <<RMul(self._std_weight_position, mean[4]),
                RMul(self._std_weight_position, mean[4]),
                Frac(1, 10),
                RMul(self._std_weight_position, mean[4])>>)))]

\* a variant of UpdateGain that takes the gain's term off twice
UpdateGainTwice(mean, covariance, measurement, projected, kalman_gain) ==
  [status |-> "ok",
   mean |->
     VecAdd(mean, DotVM(VecSub(measurement, projected.mean),
                        Transpose(kalman_gain))),
   covariance |->
     MatSub(MatSub(covariance,
                   multi_dot(kalman_gain, projected.covariance,
                            Transpose(kalman_gain))),
            multi_dot(kalman_gain, projected.covariance,
                     Transpose(kalman_gain)))]

\* a variant of UpdateGain that adds the gain's term
UpdateGainAdded(mean, covariance, measurement, projected, kalman_gain) ==
  [status |-> "ok",
   mean |->
     VecAdd(mean, DotVM(VecSub(measurement, projected.mean),
                        Transpose(kalman_gain))),
   covariance |->
     MatAdd(covariance,
            multi_dot(kalman_gain, projected.covariance,
                     Transpose(kalman_gain)))]

\* KalmanFilter.update from innovation on, given kalman_gain
UpdateGain(mean, covariance, measurement, projected, kalman_gain) ==
  [status |-> "ok",
   mean |->
     VecAdd(mean, DotVM(VecSub(measurement, projected.mean),
                        Transpose(kalman_gain))),
   covariance |->
     MatSub(covariance,
            multi_dot(kalman_gain, projected.covariance,
                     Transpose(kalman_gain)))]

\* a variant of UpdateFactor that answers a failed factorization with the
\* state it was given
UpdateFactorMasked(self, mean, covariance, measurement, projected, chol_factor) ==
  IF ~chol_factor.ok
  THEN [status |-> "ok", mean |-> mean, covariance |-> covariance]
  ELSE UpdateGain(mean, covariance, measurement, projected,
                  Transpose(cho_solve(chol_factor,
                     Transpose(Dot(covariance, Transpose(self._update_mat))))))

\* KalmanFilter.update from cho_solve on, given what cho_factor gave:
\* nothing follows a cho_factor that raised
UpdateFactor(self, mean, covariance, measurement, projected, chol_factor) ==
  IF ~chol_factor.ok
  THEN [status |-> "LinAlgError"]
  ELSE UpdateGain(mean, covariance, measurement, projected,
                  Transpose(cho_solve(chol_factor,
                     Transpose(Dot(covariance, Transpose(self._update_mat))))))

\* KalmanFilter.update from cho_factor on, given the projection
UpdateProjected(self, mean, covariance, measurement, projected) ==
  UpdateFactor(self, mean, covariance, measurement, projected,
               cho_factor(projected.covariance))

\* KalmanFilter.update
update(self, mean, covariance, measurement) ==
  UpdateProjected(self, mean, covariance, measurement,
                  project(self, mean, covariance))

(***************************************************************************)
(* multi_predict: mean is N x 8, covariance N x 8 x 8 (a sequence of N     *)
(* matrices).                                                              *)
(***************************************************************************)
\* m[:, j - 1]
Column(m, j) == Array([n \in 1..Rows(m) |-> m[n][j]])

\* c * v for a scalar c
Scale(c, v) == Array([n \in 1..Len(v) |-> RMul(c, v[n])])

\* np.ones_like(v)
ones_like(v) == Array([n \in 1..Len(v) |-> One])

\* np.square of a matrix, elementwise
Square2(m) == Array([i \in 1..Rows(m) |-> square(m[i])])

\* np.dot(a, t) of a matrix and a stack t: entry [i][n][k] is the sum over
\* j of a[i][j] * t[n][j][k]
Dot3(a, t) ==
  Array([i \in 1..Rows(a) |-> Array([n \in 1..Len(t) |-> DotVM(a[i], t[n])])])

\* t.transpose((1, 0, 2))
Transpose102(t) ==
  Array([n \in 1..Len(t[1]) |-> Array([i \in 1..Len(t) |-> t[i][n]])])

\* np.dot(t, b) of a stack and a matrix
DotEach(t, b) == Array([n \in 1..Len(t) |-> Dot(t[n], b)])

\* the sum of two stacks of the same shape
StackAdd(s, t) == Array([n \in 1..Len(s) |-> MatAdd(s[n], t[n])])

\* a variant of MotionCov that gives every track the first track's noise
MotionCovOfFirst(sqr, len) == Array([i \in 1..len |-> diag(sqr[1])])

\* the loop that fills motion_cov, for len = len(mean)
MotionCov(sqr, len) == Array([i \in 1..len |-> diag(sqr[i])])

\* KalmanFilter.multi_predict
multi_predict(self, mean, covariance) ==
  [status |-> "ok",
   mean |-> Dot(mean, Transpose(self._motion_mat)),
   covariance |->
     StackAdd(
       DotEach(Transpose102(Dot3(self._motion_mat, covariance)),
               Transpose(self._motion_mat)),
       MotionCov(
         Transpose(Square2(Concat(
           <<Scale(self._std_weight_position, Column(mean, 4)),
             Scale(self._std_weight_position, Column(mean, 4)),
             Scale(Frac(1, 100), ones_like(Column(mean, 4))),
             Scale(self._std_weight_position, Column(mean, 4))>>,
           <<Scale(self._std_weight_velocity, Column(mean, 4)),
             Scale(self._std_weight_velocity, Column(mean, 4)),
             Scale(Frac(1, 100000), ones_like(Column(mean, 4))),
             Scale(self._std_weight_velocity, Column(mean, 4))>>))),
         Len(mean)))]

(***************************************************************************)
(* gating_distance.  The arrays it touches live in a heap of two buffers:  *)
(* measurements, the caller's array, and dist, the array line 304 makes.   *)
(* The result carries the heap as the call leaves it, whether it returns   *)
(* or raises.                                                              *)
(***************************************************************************)
\* m[:, :k]
FirstCols(m, k) == Array([n \in 1..Rows(m) |-> SubSeq(m[n], 1, k)])

\* a variant of Subtracted that subtracts in place, as measurements -= mean
SubtractedInPlace(heap, view, mean) ==
  [measurements |-> Array([n \in 1..Rows(view) |-> VecSub(view[n], mean)]),
   dist |-> Array([n \in 1..Rows(view) |-> VecSub(view[n], mean)])]

\* dist = measurements - mean: a new array; view is measurements or its
\* slice, which the subtraction only reads
Subtracted(heap, view, mean) ==
  [heap EXCEPT !.dist = Array([n \in 1..Rows(view) |-> VecSub(view[n], mean)])]

\* gating_distance from np.sum(maha * maha, axis=0) on; solve_triangular was
\* told overwrite_b=True, so it may or may not have written maha over dist
GatingSolved(heap, maha, overwrite_b) ==
  [status |-> "ok",
   value |->
     Array([n \in 1..Cols(maha) |->
        Sum(Array([i \in 1..Rows(maha) |-> SurdMul(maha[i][n], maha[i][n])]))]),
   heap |-> IF overwrite_b THEN [heap EXCEPT !.dist = Transpose(maha)] ELSE heap]

\* metric "maha" from solve_triangular on, given what np.linalg.cholesky gave
GatingMaha(heap, cholesky_factor, overwrite_b) ==
  IF ~cholesky_factor.ok
  THEN [status |-> "LinAlgError", heap |-> heap]
  ELSE GatingSolved(heap,
                    solve_triangular(cholesky_factor, Transpose(heap.dist)),
                    overwrite_b)

\* a variant of GatingMetric that answers an unknown metric with no distances
GatingMetricLenient(heap, covariance, metric, overwrite_b) ==
  IF metric = "gaussian"
  THEN [status |-> "ok",
        value |-> Array([n \in 1..Rows(heap.dist) |-> Sum(square(heap.dist[n]))]),
        heap |-> heap]
  ELSE IF metric = "maha"
  THEN GatingMaha(heap, cholesky(covariance), overwrite_b)
  ELSE [status |-> "ok", value |-> <<>>, heap |-> heap]

\* a variant of GatingMetric whose gaussian distance sums the differences
GatingMetricUnsquared(heap, covariance, metric, overwrite_b) ==
  IF metric = "gaussian"
  THEN [status |-> "ok",
        value |-> Array([n \in 1..Rows(heap.dist) |-> Sum(heap.dist[n])]),
        heap |-> heap]
  ELSE IF metric = "maha"
  THEN GatingMaha(heap, cholesky(covariance), overwrite_b)
  ELSE [status |-> "ValueError", heap |-> heap]

\* gating_distance from the test of metric on; dist is in the heap
GatingMetric(heap, covariance, metric, overwrite_b) ==
  IF metric = "gaussian"
  THEN [status |-> "ok",
        value |-> Array([n \in 1..Rows(heap.dist) |-> Sum(square(heap.dist[n]))]),
        heap |-> heap]
  ELSE IF metric = "maha"
  THEN GatingMaha(heap, cholesky(covariance), overwrite_b)
  ELSE [status |-> "ValueError", heap |-> heap]

\* gating_distance from only_position on, given the projection
GatingProjected(measurements, only_position, metric, overwrite_b, projected) ==
  IF only_position
  THEN GatingMetric(
         Subtracted([measurements |-> measurements, dist |-> <<>>],
                    FirstCols(measurements, 2), SubSeq(projected.mean, 1, 2)),
         FirstCols(SubSeq(projected.covariance, 1, 2), 2),
         metric, overwrite_b)
  ELSE GatingMetric(
         Subtracted([measurements |-> measurements, dist |-> <<>>],
                    measurements, projected.mean),
         projected.covariance, metric, overwrite_b)

\* KalmanFilter.gating_distance; overwrite_b is what solve_triangular does
\* with its leave to overwrite
gating_distance(self, mean, covariance, measurements, only_position, metric, overwrite_b) ==
  GatingProjected(measurements, only_position, metric, overwrite_b,
                  project(self, mean, covariance))


(***************************************************************************)
(* The operations on arrays of any length (specification SpecShape).  An   *)
(* array is its shape here, a tuple of lengths: a mean is <<n>>, a         *)
(* covariance <<r, c>>, an array of measurements <<N, k>>.  The code tests *)
(* no shape; an operation raises where numpy does: IndexError at an index  *)
(* past the end, ValueError at a dot product of unaligned shapes and at an *)
(* elementwise operation on shapes that do not broadcast.  A result tells  *)
(* whether arithmetic on the arguments was done before the call ended.     *)
(***************************************************************************)
\* two lengths broadcast against each other
Broadcasts(k, d) == k = d \/ k = 1 \/ d = 1

\* np.dot and np.linalg.multi_dot against the filter's 8-column matrices
\* need a mean of 2 * ndim entries and a covariance of 2 * ndim rows and
\* columns
Aligned(n) == n = 2 * ndim

Raised(status, arithmetic) == [status |-> status, arithmetic |-> arithmetic]

\* initiate: measurement[3] is the first thing read
InitiateOnShape(measurement) ==
  IF measurement[1] <= 3 THEN Raised("IndexError", FALSE)
  ELSE [status |-> "ok", arithmetic |-> TRUE,
        mean |-> <<2 * measurement[1]>>,
        covariance |-> <<2 * ndim, 2 * ndim>>]

\* predict: mean[3], the noise, then the two products
PredictOnShape(mean, covariance) ==
  IF mean[1] <= 3 THEN Raised("IndexError", FALSE)
  ELSE IF ~Aligned(mean[1]) THEN Raised("ValueError", TRUE)
  ELSE IF ~Aligned(covariance[1]) \/ ~Aligned(covariance[2])
  THEN Raised("ValueError", TRUE)
  ELSE [status |-> "ok", arithmetic |-> TRUE,
        mean |-> <<2 * ndim>>, covariance |-> <<2 * ndim, 2 * ndim>>]

\* project: mean[3], the noise, then the two products
ProjectOnShape(mean, covariance) ==
  IF mean[1] <= 3 THEN Raised("IndexError", FALSE)
  ELSE IF ~Aligned(mean[1]) THEN Raised("ValueError", TRUE)
  ELSE IF ~Aligned(covariance[1]) \/ ~Aligned(covariance[2])
  THEN Raised("ValueError", TRUE)
  ELSE [status |-> "ok", arithmetic |-> TRUE,
        mean |-> <<ndim>>, covariance |-> <<ndim, ndim>>]

\* multi_predict: mean[:, 3], the noise, then the three products
MultiPredictOnShape(mean, covariance) ==
  IF mean[2] <= 3 THEN Raised("IndexError", FALSE)
  ELSE IF ~Aligned(mean[2]) THEN Raised("ValueError", TRUE)
  ELSE IF ~Aligned(covariance[2]) \/ ~Aligned(covariance[3])
  THEN Raised("ValueError", TRUE)
  ELSE [status |-> "ok", arithmetic |-> TRUE,
        mean |-> <<mean[1], 2 * ndim>>,
        covariance |-> <<covariance[1], 2 * ndim, 2 * ndim>>]

\* update from cho_factor on: the factorization and the gain are computed
\* before measurement - projected_mean, which broadcasts
UpdateProjectedOnShape(measurement, projected) ==
  IF projected.status # "ok" THEN projected
  ELSE IF ~Broadcasts(measurement[1], projected.mean[1])
  THEN Raised("ValueError", TRUE)
  ELSE [status |-> "ok", arithmetic |-> TRUE,
        mean |-> <<2 * ndim>>, covariance |-> <<2 * ndim, 2 * ndim>>]

\* update
UpdateOnShape(mean, covariance, measurement) ==
  UpdateProjectedOnShape(measurement, ProjectOnShape(mean, covariance))

\* gating_distance from only_position on: measurements[:, :2] keeps at most
\* two columns, and measurements - mean broadcasts
GatingProjectedOnShape(measurements, only_position, projected) ==
  IF projected.status # "ok" THEN projected
  ELSE IF only_position /\ measurements[2] >= 2
  THEN [status |-> "ok", arithmetic |-> TRUE, value |-> <<measurements[1]>>]
  ELSE IF ~Broadcasts(measurements[2],
                      IF only_position THEN 2 ELSE projected.mean[1])
  THEN Raised("ValueError", TRUE)
  ELSE [status |-> "ok", arithmetic |-> TRUE, value |-> <<measurements[1]>>]

\* gating_distance with one of its two metrics
GatingDistanceOnShape(mean, covariance, measurements, only_position) ==
  GatingProjectedOnShape(measurements, only_position,
                         ProjectOnShape(mean, covariance))

(***************************************************************************)
(* The filter's callers.  mean and covariance are the arrays a caller      *)
(* keeps between calls; call is the last call with the arguments it was    *)
(* given, ret what it returned or raised.                                  *)
(***************************************************************************)
VARIABLES
  kf,          \* the KalmanFilter object, shared by all tracks
  mean,        \* the caller's mean(s), <<>> before initiate
  covariance,  \* the caller's covariance(s), <<>> before initiate
  call,        \* the last call: its name and its arguments
  ret,         \* the result of the last call
  origin,      \* the measurement a single track was initiated on
  coast,       \* predict calls since initiate, -1 once update was called
  ncalls       \* calls made so far

vars == <<kf, mean, covariance, call, ret, origin, coast, ncalls>>

\* calls on a single track in one behaviour
MaxCalls == 4

\* a measurement (x, y, a, h) given as integers, a in tenths
Box(x, y, a10, h) == <<Num(x), Num(y), Frac(a10, 10), Num(h)>>

\* detections a track is initiated on: height > 0
Detections == {Box(100, 50, 5, 200), Box(30, 40, 4, 160)}

\* detections a track is updated with: any four numbers
Measurements == {Box(100, 50, 5, 200), Box(104, 47, 6, -50), Box(96, 52, 5, 0)}

Init ==
  /\ kf = NewKalmanFilter
  /\ mean = <<>>
  /\ covariance = <<>>
  /\ call = [op |-> "none"]
  /\ ret = [status |-> "none"]
  /\ origin = <<>>
  /\ coast = 0
  /\ ncalls = 0

(***************************************************************************)
(* One track, as its owner drives it: initiate once, then predict and      *)
(* update in any order.  The owner keeps the (mean, covariance) a call     *)
(* returns; a call that raises returns nothing and the owner's pair stays. *)
(***************************************************************************)
DoInitiate ==
  /\ mean = <<>>
  /\ \E measurement \in Detections :
       /\ call' = [op |-> "initiate", measurement |-> measurement]
       /\ ret' = initiate(kf, measurement)
       /\ origin' = measurement
  /\ mean' = ret'.mean
  /\ covariance' = ret'.covariance
  /\ coast' = 0
  /\ ncalls' = ncalls + 1
  /\ UNCHANGED kf

DoPredict ==
  /\ mean # <<>>
  /\ ncalls < MaxCalls
  /\ call' = [op |-> "predict", mean |-> mean, covariance |-> covariance]
  /\ ret' = predict(kf, mean, covariance)
  /\ mean' = ret'.mean
  /\ covariance' = ret'.covariance
  /\ coast' = IF coast >= 0 THEN coast + 1 ELSE coast
  /\ ncalls' = ncalls + 1
  /\ UNCHANGED <<kf, origin>>

\* the measurement is a detection or the very box the track projects to
DoUpdate ==
  /\ mean # <<>>
  /\ ncalls < MaxCalls
  /\ \E measurement \in Measurements \cup {DotMV(kf._update_mat, mean)} :
       /\ call' = [op |-> "update", mean |-> mean, covariance |-> covariance,
                   measurement |-> measurement]
       /\ ret' = update(kf, mean, covariance, measurement)
  /\ mean' = IF ret'.status = "ok" THEN ret'.mean ELSE mean
  /\ covariance' = IF ret'.status = "ok" THEN ret'.covariance ELSE covariance
  /\ coast' = -1
  /\ ncalls' = ncalls + 1
  /\ UNCHANGED <<kf, origin>>

Next == DoInitiate \/ DoPredict \/ DoUpdate

Spec == Init /\ [][Next]_vars

(***************************************************************************)
(* Properties of one track (specification Spec).                           *)
(***************************************************************************)
IsSymmetric(m) == \A i, j \in 1..Rows(m) : m[i][j] = m[j][i]

\* the trace of a square matrix
Trace(m) == Sum(Array([i \in 1..Rows(m) |-> m[i][i]]))

\* m with row and column k eliminated by the pivot m[k][k] # 0: the Schur
\* complement, kept in place
Eliminated(m, k) ==
  Array([i \in 1..Rows(m) |-> Array([j \in 1..Rows(m) |->
     IF i <= k \/ j <= k THEN m[i][j]
     ELSE RSub(m[i][j], RDiv(RMul(m[i][k], m[k][j]), m[k][k]))])])

\* a symmetric m is positive semi-definite from index k on: no pivot is
\* negative, and a zero pivot has a zero row
RECURSIVE PSDFrom(_, _)
PSDFrom(m, k) ==
  IF k > Rows(m) THEN TRUE
  ELSE IF Sign(m[k][k]) < 0 THEN FALSE
  ELSE IF Sign(m[k][k]) = 0
  THEN (\A j \in k..Rows(m) : m[k][j] = Zero) /\ PSDFrom(m, k + 1)
  ELSE PSDFrom(Eliminated(m, k), k + 1)

IsPSD(m) == PSDFrom(m, 1)

\* m without row 1 and column j
Minor(m, j) ==
  Array([i \in 1..(Rows(m) - 1) |-> Array([k \in 1..(Rows(m) - 1) |->
     m[i + 1][IF k < j THEN k ELSE k + 1]])])

\* the determinant, expanded along the first row
RECURSIVE Det(_)
Det(m) ==
  IF Rows(m) = 1 THEN m[1][1]
  ELSE Sum(Array([j \in 1..Rows(m) |->
         IF Sign(m[1][j]) = 0 THEN Zero
         ELSE IF j % 2 = 1 THEN RMul(m[1][j], Det(Minor(m, j)))
         ELSE RNeg(RMul(m[1][j], Det(Minor(m, j))))]))

\* a symmetric m is positive definite: Sylvester's criterion
IsPD(m) ==
  \A k \in 1..Rows(m) : Sign(Det(FirstCols(SubSeq(m, 1, k), k))) > 0

\* the projected covariance of the state the last call was given
CallProjectedCov == project(kf, call.mean, call.covariance).covariance

\* C1: in every state a track reaches by initiate on a measurement of
\* positive height followed by predict and update calls in any order, the
\* track's covariance is symmetric and positive semi-definite.
C1_CovarianceSymmetricPSD ==
  mean # <<>> => IsSymmetric(covariance) /\ IsPSD(covariance)

\* C1's case: a third call, an update that returned, has acted on the track
C1_Witness ==
  /\ call.op = "update"
  /\ ret.status = "ok"
  /\ ncalls >= 3
  /\ covariance = ret.covariance

\* C2: an update of a state whose projected covariance is positive definite
\* returns, and the trace of the covariance it returns is at most the trace
\* of the covariance it was given, whatever the measurement.
C2_UpdateTraceNotIncreased ==
  (call.op = "update" /\ IsPD(CallProjectedCov))
    => /\ ret.status = "ok"
       /\ RLeq(Trace(ret.covariance), Trace(call.covariance))

\* C2's case: an update with the measurement equal to the projected mean
C2_Witness ==
  /\ call.op = "update"
  /\ call.measurement = DotMV(kf._update_mat, call.mean)
  /\ ret.status = "ok"
  /\ RLess(Trace(ret.covariance), Trace(call.covariance))

\* C6: an update of a state whose projected covariance is not positive
\* definite raises the factorization's error and returns no mean and no
\* covariance; the track keeps the pair it had.
C6_NotPositiveDefiniteFails ==
  (call.op = "update" /\ ~IsPD(CallProjectedCov))
    => /\ ret = [status |-> "LinAlgError"]
       /\ mean = call.mean
       /\ covariance = call.covariance

\* C6's case: an update was given a state whose projected covariance has a
\* zero leading entry
C6_Witness ==
  /\ call.op = "update"
  /\ Sign(CallProjectedCov[1][1]) = 0
  /\ ret.status = "LinAlgError"

\* the covariance diagonal the documentation gives for a box of height h
InitialVariances(h) ==
  <<RSquare(RDiv(RMul(Num(2), h), Num(20))),
    RSquare(RDiv(RMul(Num(2), h), Num(20))),
    RSquare(Frac(1, 100)),
    RSquare(RDiv(RMul(Num(2), h), Num(20))),
    RSquare(RDiv(RMul(Num(10), h), Num(160))),
    RSquare(RDiv(RMul(Num(10), h), Num(160))),
    RSquare(Frac(1, 100000)),
    RSquare(RDiv(RMul(Num(10), h), Num(160)))>>

\* C7: initiate on (x, y, a, h), h > 0, returns the mean (x, y, a, h, 0, 0,
\* 0, 0) and a diagonal covariance with the diagonal InitialVariances(h),
\* all of it positive; for (100, 50, 0.5, 200) the diagonal is 400, 400,
\* 1e-4, 400, 156.25, 156.25, 1e-10, 156.25.
C7_InitiateValues ==
  (call.op = "initiate" /\ Sign(call.measurement[4]) > 0)
    => /\ ret.status = "ok"
       /\ ret.mean = call.measurement \o <<Zero, Zero, Zero, Zero>>
       /\ Rows(ret.covariance) = 8
       /\ \A i, j \in 1..8 :
            ret.covariance[i][j] =
              IF i = j THEN InitialVariances(call.measurement[4])[i] ELSE Zero
       /\ \A i \in 1..8 : Sign(ret.covariance[i][i]) > 0
       /\ call.measurement = Box(100, 50, 5, 200)
            => \A i \in 1..8 :
                 ret.covariance[i][i] =
                   <<Num(400), Num(400), Frac(1, 10000), Num(400),
                     Frac(625, 4), Frac(625, 4),
                     RMul(Frac(1, 100000), Frac(1, 100000)),
                     Frac(625, 4)>>[i]

\* C7's case: initiate was called on (100, 50, 0.5, 200)
C7_Witness ==
  /\ call.op = "initiate"
  /\ call.measurement = Box(100, 50, 5, 200)
  /\ mean = ret.mean
  /\ ret.covariance[7][7] = RMul(Frac(1, 100000), Frac(1, 100000))

\* C8: while a track initiated on a box of positive height is only
\* predicted, its position and shape stay the box it was initiated on, its
\* velocities stay 0, and every predict call makes each of the 8 diagonal
\* entries of the covariance strictly larger.
C8_CoastingKeepsBox ==
  (call.op = "predict" /\ coast >= 1)
    => /\ SubSeq(mean, 1, 4) = origin
       /\ SubSeq(mean, 5, 8) = <<Zero, Zero, Zero, Zero>>
       /\ \A i \in 1..8 : RLess(call.covariance[i][i], covariance[i][i])

\* C8's case: two predict calls in a row after initiate
C8_Witness ==
  /\ call.op = "predict"
  /\ coast = 2
  /\ SubSeq(mean, 1, 4) = origin

(***************************************************************************)
(* Several tracks on the one filter (specification SpecBatch): mean is the *)
(* N x 8 array of the tracks' means and covariance the N x 8 x 8 array of  *)
(* their covariances.  A track is added by initiate; predict, update,      *)
(* project and gating_distance are called on one track; multi_predict on   *)
(* all of them.  project and gating_distance change no track.              *)
(***************************************************************************)
\* tracks in the arrays
MaxTracks == 2

\* calls in one behaviour
MaxBatchCalls == 3

\* detections a track of the arrays is updated with
BatchMeasurements == {Box(104, 47, 6, 190)}

\* arrays of measurements a track is gated against: the box it projects to
\* and another one, or a single box
GatedArrays(m) ==
  {<<DotMV(NewKalmanFilter._update_mat, m), Box(104, 47, 6, 190)>>,
   <<Box(96, 52, 5, 210)>>}

Metrics == {"gaussian", "maha", "euclidean"}

BatchInitiate ==
  /\ Len(mean) < MaxTracks
  /\ ncalls < MaxBatchCalls
  /\ \E measurement \in Detections :
       /\ call' = [op |-> "initiate", measurement |-> measurement]
       /\ ret' = initiate(kf, measurement)
  /\ mean' = Append(mean, ret'.mean)
  /\ covariance' = Append(covariance, ret'.covariance)
  /\ ncalls' = ncalls + 1
  /\ UNCHANGED <<kf, origin, coast>>

BatchPredict ==
  /\ ncalls < MaxBatchCalls
  /\ \E i \in 1..Len(mean) :
       /\ call' = [op |-> "predict", track |-> i, mean |-> mean[i],
                   covariance |-> covariance[i]]
       /\ ret' = predict(kf, mean[i], covariance[i])
       /\ mean' = [mean EXCEPT ![i] = ret'.mean]
       /\ covariance' = [covariance EXCEPT ![i] = ret'.covariance]
  /\ ncalls' = ncalls + 1
  /\ UNCHANGED <<kf, origin, coast>>

BatchMultiPredict ==
  /\ Len(mean) >= 1
  /\ ncalls < MaxBatchCalls
  /\ call' = [op |-> "multi_predict", mean |-> mean, covariance |-> covariance]
  /\ ret' = multi_predict(kf, mean, covariance)
  /\ mean' = ret'.mean
  /\ covariance' = ret'.covariance
  /\ ncalls' = ncalls + 1
  /\ UNCHANGED <<kf, origin, coast>>

BatchUpdate ==
  /\ ncalls < MaxBatchCalls
  /\ \E i \in 1..Len(mean), measurement \in BatchMeasurements :
       /\ call' = [op |-> "update", track |-> i, mean |-> mean[i],
                   covariance |-> covariance[i], measurement |-> measurement]
       /\ ret' = update(kf, mean[i], covariance[i], measurement)
       /\ mean' = IF ret'.status = "ok"
                  THEN [mean EXCEPT ![i] = ret'.mean] ELSE mean
       /\ covariance' = IF ret'.status = "ok"
                        THEN [covariance EXCEPT ![i] = ret'.covariance]
                        ELSE covariance
  /\ ncalls' = ncalls + 1
  /\ UNCHANGED <<kf, origin, coast>>

BatchProject ==
  /\ ncalls < MaxBatchCalls
  /\ \E i \in 1..Len(mean) :
       /\ call' = [op |-> "project", track |-> i, mean |-> mean[i],
                   covariance |-> covariance[i]]
       /\ ret' = project(kf, mean[i], covariance[i])
  /\ ncalls' = ncalls + 1
  /\ UNCHANGED <<kf, mean, covariance, origin, coast>>

\* overwrite_b is what solve_triangular does with its leave to write over
\* its right-hand side: either is a correct scipy
BatchGatingDistance ==
  /\ ncalls < MaxBatchCalls
  /\ \E i \in 1..Len(mean) :
     \E measurements \in GatedArrays(mean[i]), only_position \in BOOLEAN,
        metric \in Metrics, overwrite_b \in BOOLEAN :
       /\ call' = [op |-> "gating_distance", track |-> i, mean |-> mean[i],
                   covariance |-> covariance[i],
                   measurements |-> measurements,
                   only_position |-> only_position, metric |-> metric,
                   overwrite_b |-> overwrite_b]
       /\ ret' = gating_distance(kf, mean[i], covariance[i], measurements,
                                only_position, metric, overwrite_b)
  /\ ncalls' = ncalls + 1
  /\ UNCHANGED <<kf, mean, covariance, origin, coast>>

NextBatch ==
  \/ BatchInitiate
  \/ BatchPredict
  \/ BatchMultiPredict
  \/ BatchUpdate
  \/ BatchProject
  \/ BatchGatingDistance

SpecBatch == Init /\ [][NextBatch]_vars

(***************************************************************************)
(* Properties of the calls on several tracks (specification SpecBatch).    *)
(***************************************************************************)
\* C3: multi_predict returns, for each row of the batch it is given, the
\* mean and the covariance predict returns on that row alone, and what it
\* returns for a row is what it returns when the row is the whole batch.
C3_MultiPredictIsPredictPerRow ==
  call.op = "multi_predict"
    => /\ ret.status = "ok"
       /\ Len(ret.mean) = Len(call.mean)
       /\ Len(ret.covariance) = Len(call.mean)
       /\ \A n \in 1..Len(call.mean) :
            /\ ret.mean[n] =
                 predict(kf, call.mean[n], call.covariance[n]).mean
            /\ ret.covariance[n] =
                 predict(kf, call.mean[n], call.covariance[n]).covariance
            /\ ret.mean[n] =
                 multi_predict(kf, <<call.mean[n]>>, <<call.covariance[n]>>).mean[1]
            /\ ret.covariance[n] =
                 multi_predict(kf, <<call.mean[n]>>,
                              <<call.covariance[n]>>).covariance[1]

\* C3's case: multi_predict on two tracks of different heights and
\* different covariances
C3_Witness ==
  /\ call.op = "multi_predict"
  /\ Len(call.mean) = 2
  /\ call.mean[1][4] # call.mean[2][4]
  /\ call.covariance[1] # call.covariance[2]
  /\ mean = ret.mean

\* the metric of the last call is none gating_distance knows
CallMetricUnknown ==
  call.op = "gating_distance" /\ call.metric \notin {"gaussian", "maha"}

\* the differences line 304 computes for the last call
CallDifferences ==
  IF call.only_position
  THEN Array([n \in 1..Len(call.measurements) |->
          VecSub(SubSeq(call.measurements[n], 1, 2),
                 SubSeq(DotMV(kf._update_mat, call.mean), 1, 2))])
  ELSE Array([n \in 1..Len(call.measurements) |->
          VecSub(call.measurements[n], DotMV(kf._update_mat, call.mean))])

\* C4 as the documentation states it: gating_distance with an unknown
\* metric raises ValueError, returns no distances, and has computed nothing
\* by then: no difference vector exists.
C4_UnknownMetricFailsAtOnce ==
  CallMetricUnknown
    => /\ ret.status = "ValueError"
       /\ "value" \notin DOMAIN ret
       /\ ret.heap.dist = <<>>

\* C4 as the code has it: gating_distance with an unknown metric raises
\* ValueError and returns no distances, after it has projected the state
\* and computed the difference vectors of all the measurements.
C4_UnknownMetricFailsAfterDifferences ==
  CallMetricUnknown
    => /\ ret.status = "ValueError"
       /\ "value" \notin DOMAIN ret
       /\ ret.heap.dist = CallDifferences

\* C4's case: gating_distance was called with the metric "euclidean"
C4_Witness ==
  /\ CallMetricUnknown
  /\ call.metric = "euclidean"
  /\ ret.status = "ValueError"
  /\ Len(ret.heap.dist) = Len(call.measurements)

\* the sum over the first k dimensions of the squared differences of u, v
RECURSIVE SquaredDistance(_, _, _)
SquaredDistance(u, v, k) ==
  IF k = 0 THEN Zero
  ELSE RAdd(SquaredDistance(u, v, k - 1), RSquare(RSub(u[k], v[k])))

\* the dimensions the last gating_distance call compares
CallDims == IF call.only_position THEN 2 ELSE 4

\* C9: gating_distance with the metric "gaussian" returns one entry per
\* measurement, the sum of the squared differences of the measurement and
\* the projected mean over the compared dimensions; the entry is never
\* negative, is 0 for a measurement equal to the projected mean there, and
\* is the same whatever the covariance.
C9_GaussianIsSquaredDistance ==
  (call.op = "gating_distance" /\ call.metric = "gaussian")
    => /\ ret.status = "ok"
       /\ Len(ret.value) = Len(call.measurements)
       /\ \A n \in 1..Len(call.measurements) :
            /\ ret.value[n] =
                 SquaredDistance(call.measurements[n],
                                 DotMV(kf._update_mat, call.mean), CallDims)
            /\ Sign(ret.value[n]) >= 0
            /\ SubSeq(call.measurements[n], 1, CallDims) =
                 SubSeq(DotMV(kf._update_mat, call.mean), 1, CallDims)
                 => ret.value[n] = Zero
       /\ ret.value =
            gating_distance(kf, call.mean, eye(8, 8), call.measurements,
                           call.only_position, call.metric, FALSE).value

\* C9's case: a gaussian distance of 0 and a positive one in one call
C9_Witness ==
  /\ call.op = "gating_distance"
  /\ call.metric = "gaussian"
  /\ ret.status = "ok"
  /\ Len(ret.value) = 2
  /\ ret.value[1] = Zero
  /\ Sign(ret.value[2]) > 0

\* the status of a call and the values it returned
Returned(r) == [f \in DOMAIN r \ {"heap"} |-> r[f]]

\* what the last call gives on a filter of its own, with solve_triangular
\* leaving its right-hand side alone
CallAlone ==
  IF call.op = "initiate" THEN initiate(NewKalmanFilter, call.measurement)
  ELSE IF call.op = "predict"
  THEN predict(NewKalmanFilter, call.mean, call.covariance)
  ELSE IF call.op = "project"
  THEN project(NewKalmanFilter, call.mean, call.covariance)
  ELSE IF call.op = "multi_predict"
  THEN multi_predict(NewKalmanFilter, call.mean, call.covariance)
  ELSE IF call.op = "update"
  THEN update(NewKalmanFilter, call.mean, call.covariance, call.measurement)
  ELSE gating_distance(NewKalmanFilter, call.mean, call.covariance,
                      call.measurements, call.only_position, call.metric,
                      FALSE)

MaxDim == 9

Dims == 1..MaxDim

\* tracks in a batch and measurements in an array of them
BatchLen == 2

\* every call below is the only call of its behaviour
CallInitiateOnShape ==
  /\ call.op = "none"
  /\ \E m \in Dims :
       /\ call' = [op |-> "initiate", measurement |-> <<m>>]
       /\ ret' = InitiateOnShape(<<m>>)
  /\ UNCHANGED <<kf, mean, covariance, origin, coast, ncalls>>

CallPredictOnShape ==
  /\ call.op = "none"
  /\ \E n \in Dims, r \in Dims, c \in Dims :
       /\ call' = [op |-> "predict", mean |-> <<n>>, covariance |-> <<r, c>>]
       /\ ret' = PredictOnShape(<<n>>, <<r, c>>)
  /\ UNCHANGED <<kf, mean, covariance, origin, coast, ncalls>>

CallProjectOnShape ==
  /\ call.op = "none"
  /\ \E n \in Dims, r \in Dims, c \in Dims :
       /\ call' = [op |-> "project", mean |-> <<n>>, covariance |-> <<r, c>>]
       /\ ret' = ProjectOnShape(<<n>>, <<r, c>>)
  /\ UNCHANGED <<kf, mean, covariance, origin, coast, ncalls>>

CallMultiPredictOnShape ==
  /\ call.op = "none"
  /\ \E n \in Dims, r \in Dims, c \in Dims :
       /\ call' = [op |-> "multi_predict", mean |-> <<BatchLen, n>>,
                   covariance |-> <<BatchLen, r, c>>]
       /\ ret' = MultiPredictOnShape(<<BatchLen, n>>, <<BatchLen, r, c>>)
  /\ UNCHANGED <<kf, mean, covariance, origin, coast, ncalls>>

CallUpdateOnShape ==
  /\ call.op = "none"
  /\ \E n \in Dims, r \in Dims, c \in Dims, m \in Dims :
       /\ call' = [op |-> "update", mean |-> <<n>>, covariance |-> <<r, c>>,
                   measurement |-> <<m>>]
       /\ ret' = UpdateOnShape(<<n>>, <<r, c>>, <<m>>)
  /\ UNCHANGED <<kf, mean, covariance, origin, coast, ncalls>>

CallGatingDistanceOnShape ==
  /\ call.op = "none"
  /\ \E n \in Dims, r \in Dims, c \in Dims, k \in Dims,
        only_position \in BOOLEAN :
       /\ call' = [op |-> "gating_distance", mean |-> <<n>>,
                   covariance |-> <<r, c>>, measurements |-> <<BatchLen, k>>,
                   only_position |-> only_position]
       /\ ret' = GatingDistanceOnShape(<<n>>, <<r, c>>, <<BatchLen, k>>,
                                       only_position)
  /\ UNCHANGED <<kf, mean, covariance, origin, coast, ncalls>>

NextShape ==
  \/ CallInitiateOnShape
  \/ CallPredictOnShape
  \/ CallProjectOnShape
  \/ CallMultiPredictOnShape
  \/ CallUpdateOnShape
  \/ CallGatingDistanceOnShape

SpecShape == Init /\ [][NextShape]_vars

\* the last call was given an array of a wrong length: a measurement not of
\* ndim entries, a mean not of 2 * ndim, a covariance not 2 * ndim square
CallShapeWrong ==
  \/ call.op = "initiate" /\ call.measurement # <<ndim>>
  \/ call.op \in {"predict", "project", "update", "gating_distance"}
       /\ (call.mean # <<2 * ndim>> \/ call.covariance # <<2 * ndim, 2 * ndim>>)
  \/ call.op = "update" /\ call.measurement # <<ndim>>
  \/ call.op = "gating_distance" /\ call.measurements[2] # ndim
  \/ call.op = "multi_predict"
       /\ (call.mean[2] # 2 * ndim
           \/ SubSeq(call.covariance, 2, 3) # <<2 * ndim, 2 * ndim>>)

\* C5: every operation given a measurement, a mean or a covariance of a
\* wrong length raises a shape error before any arithmetic, and returns
\* nothing.
C5_WrongShapeFailsBeforeArithmetic ==
  CallShapeWrong
    => /\ ret.status \in {"IndexError", "ValueError"}
       /\ ~ret.arithmetic
====
